---- MODULE Spec2Model ----
(***************************************************************************)
(* Ambulance dispatch simulator: prototype 1 (Dijkstra per query) and      *)
(* prototype 2 (Floyd-Warshall table), src/prototype1.py and               *)
(* src/prototype2.py.                                                      *)
(*                                                                         *)
(* Numbers.  Edge weights and travel times are Python floats.  A float is  *)
(* modelled by the natural number n that stands for n/8 time units, and a  *)
(* float addition rounds its exact result to MantissaBits significant      *)
(* bits, ties to even, as IEEE-754 does with 53 bits.  float('infinity')   *)
(* is Inf, which absorbs every addition and is greater than every sum the  *)
(* model reaches.  Times in dispatch records are in hundredths, the unit   *)
(* of round(x, 2).                                                         *)
(***************************************************************************)
EXTENDS Integers, Sequences, FiniteSets

\* ------------------------------------------------------------------------
\* Bounds of the input files
\* ------------------------------------------------------------------------
MaxEdges == 4
MaxFleet == 2
MaxCalls == 2

\* ------------------------------------------------------------------------
\* Floats
\* ------------------------------------------------------------------------
MantissaBits == 6
Inf == 100000

RECURSIVE Ulp(_)
Ulp(n) == IF n < 2 ^ MantissaBits THEN 1 ELSE 2 * Ulp(n \div 2)

\* The float nearest to the exact value n (round half to even).
RoundFloat(n) ==
    LET u == Ulp(n)
        q == n \div u
        r == n % u
    IN  IF 2 * r < u THEN q * u
        ELSE IF 2 * r > u THEN (q + 1) * u
        ELSE IF q % 2 = 0 THEN q * u ELSE (q + 1) * u

\* a + b on floats.
FAdd(a, b) == IF a = Inf \/ b = Inf THEN Inf ELSE RoundFloat(a + b)

\* round(x, 2): x in eighths, the result in hundredths (round half to even).
Round2(x) ==
    LET n == x * 25
        q == n \div 2
    IN  IF n % 2 = 0 THEN q ELSE IF q % 2 = 0 THEN q ELSE q + 1

\* ------------------------------------------------------------------------
\* Input files
\* ------------------------------------------------------------------------
\* Location names in Python's string order.
Locations == <<"A", "B", "C", "D">>

LocRank(v) == CHOOSE i \in 1..Len(Locations) : Locations[i] = v

\* Rows a location_network.csv is made of (times in eighths).
NetworkRows == <<
    [Start |-> "A", End |-> "B", TravelTime |-> 2,  TrafficDelay |-> 1],
    [Start |-> "B", End |-> "C", TravelTime |-> 1,  TrafficDelay |-> 0],
    [Start |-> "C", End |-> "D", TravelTime |-> 1,  TrafficDelay |-> 0],
    [Start |-> "A", End |-> "B", TravelTime |-> 64, TrafficDelay |-> 0],
    [Start |-> "A", End |-> "C", TravelTime |-> 5,  TrafficDelay |-> 0],
    [Start |-> "B", End |-> "D", TravelTime |-> 8,  TrafficDelay |-> 0],
    [Start |-> "C", End |-> "C", TravelTime |-> 1,  TrafficDelay |-> 1],
    [Start |-> "D", End |-> "B", TravelTime |-> 0,  TrafficDelay |-> 0] >>

RECURSIVE PickRows(_, _)
PickRows(S, i) ==
    IF i > Len(NetworkRows) THEN <<>>
    ELSE (IF i \in S THEN <<NetworkRows[i]>> ELSE <<>>) \o PickRows(S, i + 1)

\* The network files considered: at most MaxEdges rows, in file order.
NetworkFiles ==
    { PickRows(S, 1) : S \in { T \in SUBSET (1..Len(NetworkRows)) : Cardinality(T) <= MaxEdges } }

\* ------------------------------------------------------------------------
\* Graph
\* ------------------------------------------------------------------------
\* adjacency_list is a dict: a sequence of [source, neighbors] in insertion
\* order; vertices is a set.
EmptyGraph == [adjacency_list |-> <<>>, vertices |-> {}]

HasSource(graph, v) == \E i \in 1..Len(graph.adjacency_list) : graph.adjacency_list[i].source = v

SourceIndex(graph, v) == CHOOSE i \in 1..Len(graph.adjacency_list) : graph.adjacency_list[i].source = v

Neighbors(graph, v) == graph.adjacency_list[SourceIndex(graph, v)].neighbors

add_edge(graph, source, destination, weight) ==
    LET al == IF HasSource(graph, source) THEN graph.adjacency_list
              ELSE Append(graph.adjacency_list, [source |-> source, neighbors |-> <<>>])
        g1 == [graph EXCEPT !.adjacency_list = al]
        i  == SourceIndex(g1, source)
    IN  [adjacency_list |-> [al EXCEPT ![i].neighbors = Append(@, <<destination, weight>>)],
         vertices |-> graph.vertices \cup {source, destination}]

RECURSIVE LoadRows(_, _, _)
LoadRows(graph, rows, i) ==
    IF i > Len(rows) THEN graph
    ELSE LoadRows(add_edge(graph, rows[i].Start, rows[i].End,
                           FAdd(rows[i].TravelTime, rows[i].TrafficDelay)),
                  rows, i + 1)

load_network_data(file) == LoadRows(EmptyGraph, file, 1)

\* ------------------------------------------------------------------------
\* Prototype 1: Dijkstra
\* ------------------------------------------------------------------------
\* Order of the heap entries (cost, node): Python's tuple comparison.
EntryLess(a, b) ==
    \/ a.cost < b.cost
    \/ a.cost = b.cost /\ LocRank(a.node) < LocRank(b.node)

\* heapq.heappush: the heap is kept as the sorted sequence of its entries,
\* so that heappop takes the head.
RECURSIVE heappush_node(_, _)
heappush_node(pq, e) ==
    IF pq = <<>> THEN <<e>>
    ELSE IF EntryLess(e, Head(pq)) THEN <<e>> \o pq
    ELSE <<Head(pq)>> \o heappush_node(Tail(pq), e)

\* Lines 72-77: the state of a call before the first loop iteration.
\* expanded and iterations are ghost fields: expanded[v] counts the entries
\* of v that passed the staleness check, iterations the loop iterations.
DijkstraInit(graph, start_node) ==
    [priority_queue |-> <<[cost |-> 0, node |-> start_node]>>,
     distances |-> [v \in graph.vertices \cup {start_node} |->
                        IF v = start_node THEN 0 ELSE Inf],
     returned |-> FALSE,
     result |-> Inf,
     expanded |-> [v \in graph.vertices \cup {start_node} |-> 0],
     iterations |-> 0]

\* A mutated relaxation: a neighbour's distance is set when it is first
\* found and never improved.
RECURSIVE RelaxFirstFound(_, _, _, _)
RelaxFirstFound(d, current_node, nbrs, i) ==
    IF i > Len(nbrs) THEN d
    ELSE LET neighbor == nbrs[i][1]
             edge_weight == nbrs[i][2]
             new_cost == FAdd(d.distances[current_node], edge_weight)
         IN  IF d.distances[neighbor] = Inf /\ new_cost < Inf
             THEN RelaxFirstFound([d EXCEPT !.distances[neighbor] = new_cost,
                                            !.priority_queue =
                                                heappush_node(@, [cost |-> new_cost, node |-> neighbor])],
                                  current_node, nbrs, i + 1)
             ELSE RelaxFirstFound(d, current_node, nbrs, i + 1)

\* Lines 93-99: the relaxation of the edges nbrs[i..] of current_node.
RECURSIVE Relax(_, _, _, _)
Relax(d, current_node, nbrs, i) ==
    IF i > Len(nbrs) THEN d
    ELSE LET neighbor == nbrs[i][1]
             edge_weight == nbrs[i][2]
             new_cost == FAdd(d.distances[current_node], edge_weight)
         IN  IF new_cost < d.distances[neighbor]
             THEN Relax([d EXCEPT !.distances[neighbor] = new_cost,
                                  !.priority_queue =
                                      heappush_node(@, [cost |-> new_cost, node |-> neighbor])],
                        current_node, nbrs, i + 1)
             ELSE Relax(d, current_node, nbrs, i + 1)

\* A mutated loop iteration: the staleness check of line 84 is missing.
DijkstraIterNoStaleCheck(graph, d, end_node) ==
    IF d.priority_queue = <<>>
    THEN [d EXCEPT !.returned = TRUE, !.result = Inf]
    ELSE LET e == Head(d.priority_queue)
             d1 == [d EXCEPT !.priority_queue = Tail(@), !.iterations = @ + 1]
             d2 == [d1 EXCEPT !.expanded[e.node] = @ + 1]
         IN  IF e.node = end_node
             THEN [d2 EXCEPT !.returned = TRUE, !.result = d2.distances[end_node]]
             ELSE IF HasSource(graph, e.node)
                  THEN Relax(d2, e.node, Neighbors(graph, e.node), 1)
                  ELSE d2

\* Lines 79-102: one iteration of the while loop, or the return after it.
DijkstraIter(graph, d, end_node) ==
    IF d.priority_queue = <<>>
    THEN [d EXCEPT !.returned = TRUE, !.result = Inf]
    ELSE LET e == Head(d.priority_queue)
             d1 == [d EXCEPT !.priority_queue = Tail(@), !.iterations = @ + 1]
             d2 == [d1 EXCEPT !.expanded[e.node] = @ + 1]
         IN  IF e.cost > d.distances[e.node]
             THEN d1
             ELSE IF e.node = end_node
                  THEN [d2 EXCEPT !.returned = TRUE, !.result = d2.distances[end_node]]
                  ELSE IF HasSource(graph, e.node)
                       THEN Relax(d2, e.node, Neighbors(graph, e.node), 1)
                       ELSE d2

RECURSIVE DijkstraRun(_, _, _)
DijkstraRun(graph, d, end_node) ==
    IF d.returned THEN d ELSE DijkstraRun(graph, DijkstraIter(graph, d, end_node), end_node)

dijkstra_shortest_path(graph, start_node, end_node) ==
    DijkstraRun(graph, DijkstraInit(graph, start_node), end_node).result

\* ------------------------------------------------------------------------
\* Prototype 2: Floyd-Warshall
\* ------------------------------------------------------------------------
\* The iteration orders of the set graph.vertices: every order is possible
\* (string hashing), and one process iterates the set in one order.
Orders(S) ==
    { o \in [1..Cardinality(S) -> S] : \A i, j \in 1..Cardinality(S) : o[i] = o[j] => i = j }

\* Lines 78-80: the edges of one source.
RECURSIVE InitEdges(_, _, _, _)
InitEdges(dist, source, nbrs, i) ==
    IF i > Len(nbrs) THEN dist
    ELSE LET destination == nbrs[i][1]
             weight == nbrs[i][2]
         IN  InitEdges(IF weight < dist[source][destination]
                       THEN [dist EXCEPT ![source][destination] = weight]
                       ELSE dist,
                       source, nbrs, i + 1)

\* Lines 77-80.
RECURSIVE InitSources(_, _, _)
InitSources(dist, al, s) ==
    IF s > Len(al) THEN dist
    ELSE InitSources(InitEdges(dist, al[s].source, al[s].neighbors, 1), al, s + 1)

\* Lines 86-88.
FWStep(dist, k, i, j) ==
    LET new_cost == FAdd(dist[i][k], dist[k][j])
    IN  IF new_cost < dist[i][j] THEN [dist EXCEPT ![i][j] = new_cost] ELSE dist

\* The loops of lines 83-85.  (d = d makes TLC evaluate d before it recurses.)
RECURSIVE FWLoopJ(_, _, _, _, _)
FWLoopJ(dist, ord, k, i, jx) ==
    IF jx > Len(ord) THEN dist
    ELSE LET d == FWStep(dist, k, i, ord[jx])
         IN  IF d = d THEN FWLoopJ(d, ord, k, i, jx + 1) ELSE d

RECURSIVE FWLoopI(_, _, _, _)
FWLoopI(dist, ord, k, ix) ==
    IF ix > Len(ord) THEN dist
    ELSE LET d == FWLoopJ(dist, ord, k, ord[ix], 1)
         IN  IF d = d THEN FWLoopI(d, ord, k, ix + 1) ELSE d

\* Mutated loops: the intermediate vertex k is the innermost loop.
RECURSIVE KInnerK(_, _, _, _, _)
KInnerK(dist, ord, i, j, kx) ==
    IF kx > Len(ord) THEN dist
    ELSE LET d == FWStep(dist, ord[kx], i, j)
         IN  IF d = d THEN KInnerK(d, ord, i, j, kx + 1) ELSE d

RECURSIVE KInnerJ(_, _, _, _)
KInnerJ(dist, ord, i, jx) ==
    IF jx > Len(ord) THEN dist
    ELSE LET d == KInnerK(dist, ord, i, ord[jx], 1)
         IN  IF d = d THEN KInnerJ(d, ord, i, jx + 1) ELSE d

RECURSIVE FWLoopKInnermost(_, _, _)
FWLoopKInnermost(dist, ord, ix) ==
    IF ix > Len(ord) THEN dist
    ELSE LET d == KInnerJ(dist, ord, ord[ix], 1)
         IN  IF d = d THEN FWLoopKInnermost(d, ord, ix + 1) ELSE d

RECURSIVE FWLoopK(_, _, _)
FWLoopK(dist, ord, kx) ==
    IF kx > Len(ord) THEN dist
    ELSE LET d == FWLoopI(dist, ord, ord[kx], 1)
         IN  IF d = d THEN FWLoopK(d, ord, kx + 1) ELSE d

\* Lines 67-91, the set graph.vertices being iterated in the order ord.
floyd_warshall_precomputation(graph, ord) ==
    LET dist0 == [v \in graph.vertices |-> [u \in graph.vertices |->
                      IF u = v THEN 0 ELSE Inf]]
    IN  FWLoopK(InitSources(dist0, graph.adjacency_list, 1), ord, 1)

\* ------------------------------------------------------------------------
\* State
\* ------------------------------------------------------------------------
VARIABLES
    network_file,          \* rows of data/location_network.csv
    ambulance_file,        \* rows of data/ambulance.csv
    calls_file,            \* rows of data/calls.csv
    graph,                 \* the Graph built by load_network_data
    path_matrix,           \* the table built by floyd_warshall_precomputation
    stage,                 \* position of the path-query harness
    query,                 \* start_node and end_node of the running Dijkstra call
    dj,                    \* locals of the running Dijkstra call
    pc,                    \* pc[p]: position of prototype p in run_simulation
    call_queue,            \* call_queue[p]
    dispatch_log,          \* dispatch_log[p]
    available_ambulances,  \* available_ambulances[p]
    processed,             \* processed[p]: the calls dequeued so far, in order
    relaxed                \* the graph with one weight decreased, and its distances

vars == <<network_file, ambulance_file, calls_file, graph, path_matrix, stage, query, dj,
          pc, call_queue, dispatch_log, available_ambulances, processed, relaxed>>

dispatchVars == <<ambulance_file, calls_file, pc, call_queue, dispatch_log,
                  available_ambulances, processed>>

Protos == {1, 2}

NoQuery == [start_node |-> "", end_node |-> ""]

NoCall == [priority_queue |-> <<>>, distances |-> <<>>, returned |-> FALSE, result |-> Inf,
           expanded |-> <<>>, iterations |-> 0]

NoRelaxed == [done |-> FALSE]

\* ------------------------------------------------------------------------
\* Path queries: both strategies on one graph
\* ------------------------------------------------------------------------
InitPath ==
    /\ network_file \in NetworkFiles
    /\ ambulance_file = <<>>
    /\ calls_file = <<>>
    /\ graph = EmptyGraph
    /\ path_matrix = <<>>
    /\ stage = "start"
    /\ query = NoQuery
    /\ dj = NoCall
    /\ pc = [p \in Protos |-> "start"]
    /\ call_queue = [p \in Protos |-> <<>>]
    /\ dispatch_log = [p \in Protos |-> <<>>]
    /\ available_ambulances = [p \in Protos |-> <<>>]
    /\ processed = [p \in Protos |-> <<>>]
    /\ relaxed = NoRelaxed

LoadNetwork ==
    /\ stage = "start"
    /\ graph' = load_network_data(network_file)
    /\ stage' = "loaded"
    /\ UNCHANGED <<network_file, path_matrix, query, dj, relaxed>>
    /\ UNCHANGED dispatchVars

Precompute ==
    /\ stage = "loaded"
    /\ \E ord \in Orders(graph.vertices) :
           path_matrix' = floyd_warshall_precomputation(graph, ord)
    /\ stage' = "ready"
    /\ UNCHANGED <<network_file, graph, query, dj, relaxed>>
    /\ UNCHANGED dispatchVars

DijkstraCall ==
    /\ stage \in {"ready", "returned"}
    /\ \E u \in graph.vertices, v \in graph.vertices :
           /\ query' = [start_node |-> u, end_node |-> v]
           /\ dj' = DijkstraInit(graph, u)
    /\ stage' = "running"
    /\ UNCHANGED <<network_file, graph, path_matrix, relaxed>>
    /\ UNCHANGED dispatchVars

DijkstraLoop ==
    /\ stage = "running"
    /\ dj' = DijkstraIter(graph, dj, query.end_node)
    /\ stage' = IF dj'.returned THEN "returned" ELSE "running"
    /\ UNCHANGED <<network_file, graph, path_matrix, query, relaxed>>
    /\ UNCHANGED dispatchVars

NextPath == LoadNetwork \/ Precompute \/ DijkstraCall \/ DijkstraLoop

SpecPath == InitPath /\ [][NextPath]_vars

\* ------------------------------------------------------------------------
\* One weight decreased: both strategies on the two graphs
\* ------------------------------------------------------------------------
\* The weights an edge of weight w is decreased to.
Decreased(w) == { x \in {0, w \div 2, w - 1} : 0 <= x /\ x < w }

\* graph with the weight of the i-th edge of its s-th source set to w.
WithWeight(g, s, i, w) ==
    [g EXCEPT !.adjacency_list[s].neighbors[i] = <<@[1], w>>]

DecreaseWeight ==
    /\ stage = "loaded"
    /\ \E s \in 1..Len(graph.adjacency_list) :
       \E i \in 1..Len(graph.adjacency_list[s].neighbors) :
       \E w \in Decreased(graph.adjacency_list[s].neighbors[i][2]) :
           relaxed' = [done |-> FALSE, graph |-> WithWeight(graph, s, i, w)]
    /\ stage' = "decreased"
    /\ UNCHANGED <<network_file, graph, path_matrix, query, dj>>
    /\ UNCHANGED dispatchVars

\* floyd_warshall_precomputation on both graphs, in one process.
PrecomputeBoth ==
    /\ stage = "decreased"
    /\ \E ord \in Orders(graph.vertices) :
           /\ path_matrix' = floyd_warshall_precomputation(graph, ord)
           /\ relaxed' = [done |-> FALSE, graph |-> relaxed.graph,
                          path_matrix |-> floyd_warshall_precomputation(relaxed.graph, ord)]
    /\ stage' = "tables"
    /\ UNCHANGED <<network_file, graph, query, dj>>
    /\ UNCHANGED dispatchVars

\* dijkstra_shortest_path on both graphs, for one pair of vertices.
DijkstraBoth ==
    /\ stage \in {"tables", "compared"}
    /\ \E u \in graph.vertices, v \in graph.vertices :
           /\ query' = [start_node |-> u, end_node |-> v]
           /\ relaxed' = [done |-> TRUE, graph |-> relaxed.graph,
                          path_matrix |-> relaxed.path_matrix,
                          before |-> dijkstra_shortest_path(graph, u, v),
                          after |-> dijkstra_shortest_path(relaxed.graph, u, v)]
    /\ stage' = "compared"
    /\ UNCHANGED <<network_file, graph, path_matrix, dj>>
    /\ UNCHANGED dispatchVars

NextMono == LoadNetwork \/ DecreaseWeight \/ PrecomputeBoth \/ DijkstraBoth

SpecMono == InitPath /\ [][NextMono]_vars

\* ------------------------------------------------------------------------
\* Dispatch: input files
\* ------------------------------------------------------------------------
\* The rows of NetworkRows the dispatch runs take their network from.
RoadRows == {2, 3, 4}

\* The network files of the dispatch runs: the road B -> C -> D and the
\* long edge into it, cut after any row.
DispatchNetworkFiles ==
    { SubSeq(PickRows(RoadRows, 1), 1, n) : n \in 0..Cardinality(RoadRows) }

\* Ambulance numbers (one of them blank) and staging locations.
AmbulanceNumbers == {"", "V1", "V2"}

StagingLocations == {"A", "C"}

AmbulanceRowSet ==
    [AmbulanceNumber : AmbulanceNumbers, StagingLocation : StagingLocations]

\* The ambulance files considered: at most MaxFleet rows, no number twice.
AmbulanceFiles ==
    UNION { { f \in [1..n -> AmbulanceRowSet] :
                \A i, j \in 1..n : f[i].AmbulanceNumber = f[j].AmbulanceNumber => i = j }
            : n \in 0..MaxFleet }

\* Where the calls are and of what type ("Other" has no priority row).
CallKinds == { [Location |-> "B", CallType |-> "Cardiac"],
               [Location |-> "D", CallType |-> "Cardiac"],
               [Location |-> "D", CallType |-> "Other"] }

CallRowSet ==
    { [CallID |-> id, Location |-> k.Location, CallType |-> k.CallType] :
          id \in 1..MaxCalls, k \in CallKinds }

\* The call files considered: at most MaxCalls rows in any order, no call
\* id twice.
CallFiles ==
    UNION { { f \in [1..n -> CallRowSet] : \A i, j \in 1..n : f[i].CallID = f[j].CallID => i = j }
            : n \in 0..MaxCalls }

\* The rows of call_priority.csv.
PriorityRows == << [CallType |-> "Cardiac", Priority |-> 1] >>

\* ------------------------------------------------------------------------
\* Dispatch: loading
\* ------------------------------------------------------------------------
\* Dicts are sequences of [key, value] in insertion order.
HasKey(dict, k) == \E i \in 1..Len(dict) : dict[i].key = k

KeyIndex(dict, k) == CHOOSE i \in 1..Len(dict) : dict[i].key = k

\* dict[k] = v
SetItem(dict, k, v) ==
    IF HasKey(dict, k) THEN [dict EXCEPT ![KeyIndex(dict, k)].value = v]
    ELSE Append(dict, [key |-> k, value |-> v])

RECURSIVE LoadPriorities(_, _, _)
LoadPriorities(priorities, rows, i) ==
    IF i > Len(rows) THEN priorities
    ELSE LoadPriorities(SetItem(priorities, rows[i].CallType, rows[i].Priority), rows, i + 1)

load_call_priorities(rows) == LoadPriorities(<<>>, rows, 1)

RECURSIVE LoadAmbulances(_, _, _)
LoadAmbulances(ambulances, rows, i) ==
    IF i > Len(rows) THEN ambulances
    ELSE LoadAmbulances(SetItem(ambulances, rows[i].AmbulanceNumber, rows[i].StagingLocation),
                        rows, i + 1)

load_ambulance_data(rows) == LoadAmbulances(<<>>, rows, 1)

DefaultPriority == 99

\* call_priorities.get(call_type, 99)
PriorityOf(call_priorities, call_type) ==
    IF HasKey(call_priorities, call_type)
    THEN call_priorities[KeyIndex(call_priorities, call_type)].value
    ELSE DefaultPriority

\* A mutated order of the queue entries: the call id is not compared.
CallLessByPriority(a, b) == a.priority < b.priority

\* Order of the queue entries (priority, call_id, row): Python's tuple
\* comparison.  Call ids are distinct, so the rows are never compared.
CallLess(a, b) ==
    \/ a.priority < b.priority
    \/ a.priority = b.priority /\ a.call_id < b.call_id

\* heapq.heappush on call_queue, kept as the sorted sequence of its entries.
RECURSIVE heappush_call(_, _)
heappush_call(queue, e) ==
    IF queue = <<>> THEN <<e>>
    ELSE IF CallLess(e, Head(queue)) THEN <<e>> \o queue
    ELSE <<Head(queue)>> \o heappush_call(Tail(queue), e)

\* The loop that reads calls.csv and fills call_queue.
RECURSIVE PushCalls(_, _, _, _)
PushCalls(queue, call_priorities, rows, i) ==
    IF i > Len(rows) THEN queue
    ELSE PushCalls(heappush_call(queue,
                       [priority |-> PriorityOf(call_priorities, rows[i].CallType),
                        call_id |-> rows[i].CallID,
                        row |-> rows[i]]),
                   call_priorities, rows, i + 1)

\* ------------------------------------------------------------------------
\* Dispatch: the loop
\* ------------------------------------------------------------------------
\* best_ambulance is <<>> for None and <<id>> for an ambulance id.
Truthy(best_ambulance) == best_ambulance # <<>> /\ best_ambulance[1] # ""

\* A mutated scan: a vehicle that ties the fastest time replaces the best.
RECURSIVE SelectBestLast(_, _, _, _)
SelectBestLast(fleet, times, i, sel) ==
    IF i > Len(fleet) THEN sel
    ELSE SelectBestLast(fleet, times, i + 1,
             IF times[i] <= sel.fastest_time /\ times[i] < Inf
             THEN [best_ambulance |-> <<fleet[i].key>>, fastest_time |-> times[i]]
             ELSE sel)

\* The scan of the fleet, times[i] being the time_to_call of the i-th
\* vehicle.
RECURSIVE SelectBest(_, _, _, _)
SelectBest(fleet, times, i, sel) ==
    IF i > Len(fleet) THEN sel
    ELSE SelectBest(fleet, times, i + 1,
             IF times[i] < sel.fastest_time
             THEN [best_ambulance |-> <<fleet[i].key>>, fastest_time |-> times[i]]
             ELSE sel)

NoneSelected == [best_ambulance |-> <<>>, fastest_time |-> Inf]

\* The log step of one iteration.
LogResult(st, entry, sel) ==
    IF Truthy(sel.best_ambulance)
    THEN [st EXCEPT !.dispatch_log = Append(@,
             [CallID |-> entry.call_id,
              CallType |-> entry.row.CallType,
              CallLocation |-> entry.row.Location,
              SelectedAmbulance |-> sel.best_ambulance[1],
              TimeToCallLocation |-> Round2(sel.fastest_time)])]
    ELSE st

\* heappop of one iteration; processed is a ghost field.
Dequeued(st) ==
    [st EXCEPT !.call_queue = Tail(@), !.processed = Append(@, Head(st.call_queue))]

RemoveKey(dict, k) == SelectSeq(dict, LAMBDA x : x.key # k)

\* A mutated iteration of prototype 1: the selected vehicle leaves the
\* available fleet.
DispatchIter1RemovesVehicle(g, st) ==
    LET entry == Head(st.call_queue)
        fleet == st.available_ambulances
        times == [i \in 1..Len(fleet) |->
                     dijkstra_shortest_path(g, fleet[i].value, entry.row.Location)]
        sel   == SelectBest(fleet, times, 1, NoneSelected)
        st1   == LogResult(Dequeued(st), entry, sel)
    IN  IF Truthy(sel.best_ambulance)
        THEN [st1 EXCEPT !.available_ambulances = RemoveKey(@, sel.best_ambulance[1])]
        ELSE st1

\* One iteration of the while loop of prototype 1.
DispatchIter1(g, st) ==
    LET entry == Head(st.call_queue)
        fleet == st.available_ambulances
        times == [i \in 1..Len(fleet) |->
                     dijkstra_shortest_path(g, fleet[i].value, entry.row.Location)]
    IN  LogResult(Dequeued(st), entry, SelectBest(fleet, times, 1, NoneSelected))

\* path_matrix[a][b] raises KeyError.
KeyError(matrix, a, b) == a \notin DOMAIN matrix \/ b \notin DOMAIN matrix[a]

\* One iteration of the while loop of prototype 2.  The first lookup that
\* raises KeyError ends the program: no later statement runs.
DispatchIter2(matrix, st) ==
    LET entry == Head(st.call_queue)
        fleet == st.available_ambulances
    IN  IF \E i \in 1..Len(fleet) : KeyError(matrix, fleet[i].value, entry.row.Location)
        THEN [Dequeued(st) EXCEPT !.raised = TRUE]
        ELSE LET times == [i \in 1..Len(fleet) |-> matrix[fleet[i].value][entry.row.Location]]
             IN  LogResult(Dequeued(st), entry, SelectBest(fleet, times, 1, NoneSelected))

LoopState(p) ==
    [call_queue |-> call_queue[p], dispatch_log |-> dispatch_log[p],
     available_ambulances |-> available_ambulances[p], processed |-> processed[p],
     raised |-> FALSE]

SetLoopState(p, st) ==
    /\ call_queue' = [call_queue EXCEPT ![p] = st.call_queue]
    /\ dispatch_log' = [dispatch_log EXCEPT ![p] = st.dispatch_log]
    /\ available_ambulances' = [available_ambulances EXCEPT ![p] = st.available_ambulances]
    /\ processed' = [processed EXCEPT ![p] = st.processed]
    /\ pc' = [pc EXCEPT ![p] = IF st.raised THEN "error" ELSE "loop"]

InitDispatch ==
    /\ network_file \in DispatchNetworkFiles
    /\ ambulance_file \in AmbulanceFiles
    /\ calls_file \in CallFiles
    /\ graph = EmptyGraph
    /\ path_matrix = <<>>
    /\ stage = "start"
    /\ query = NoQuery
    /\ dj = NoCall
    /\ pc = [p \in Protos |-> "start"]
    /\ call_queue = [p \in Protos |-> <<>>]
    /\ dispatch_log = [p \in Protos |-> <<>>]
    /\ available_ambulances = [p \in Protos |-> <<>>]
    /\ processed = [p \in Protos |-> <<>>]
    /\ relaxed = NoRelaxed

\* The tables floyd_warshall_precomputation can build from each network
\* file, one for every iteration order of the vertex set.
TablesOf ==
    [f \in DispatchNetworkFiles |->
        { floyd_warshall_precomputation(load_network_data(f), ord) :
              ord \in Orders(load_network_data(f).vertices) }]

\* run_simulation of prototype 1 up to the while loop.
Start1 ==
    /\ pc[1] = "start"
    /\ graph' = load_network_data(network_file)
    /\ SetLoopState(1, [call_queue |-> PushCalls(<<>>, load_call_priorities(PriorityRows),
                                                  calls_file, 1),
                         dispatch_log |-> <<>>,
                         available_ambulances |-> load_ambulance_data(ambulance_file),
                         processed |-> <<>>,
                         raised |-> FALSE])
    /\ UNCHANGED <<network_file, ambulance_file, calls_file, path_matrix, stage, query, dj,
                   relaxed>>

\* run_simulation of prototype 2 up to the while loop.  The two programs
\* are run one after the other on the same files.
Start2 ==
    /\ pc[1] = "done"
    /\ pc[2] = "start"
    /\ graph' = load_network_data(network_file)
    /\ path_matrix' \in TablesOf[network_file]
    /\ SetLoopState(2, [call_queue |-> PushCalls(<<>>, load_call_priorities(PriorityRows),
                                                  calls_file, 1),
                         dispatch_log |-> <<>>,
                         available_ambulances |-> load_ambulance_data(ambulance_file),
                         processed |-> <<>>,
                         raised |-> FALSE])
    /\ UNCHANGED <<network_file, ambulance_file, calls_file, stage, query, dj, relaxed>>

Dispatch1 ==
    /\ pc[1] = "loop"
    /\ call_queue[1] # <<>>
    /\ SetLoopState(1, DispatchIter1(graph, LoopState(1)))
    /\ UNCHANGED <<network_file, ambulance_file, calls_file, graph, path_matrix, stage, query,
                   dj, relaxed>>

Dispatch2 ==
    /\ pc[2] = "loop"
    /\ call_queue[2] # <<>>
    /\ SetLoopState(2, DispatchIter2(path_matrix, LoopState(2)))
    /\ UNCHANGED <<network_file, ambulance_file, calls_file, graph, path_matrix, stage, query,
                   dj, relaxed>>

\* The end of the while loop and the writing of the log file.
Finish1 ==
    /\ pc[1] = "loop"
    /\ call_queue[1] = <<>>
    /\ pc' = [pc EXCEPT ![1] = "done"]
    /\ UNCHANGED <<network_file, ambulance_file, calls_file, graph, path_matrix, stage, query,
                   dj, call_queue, dispatch_log, available_ambulances, processed, relaxed>>

Finish2 ==
    /\ pc[2] = "loop"
    /\ call_queue[2] = <<>>
    /\ pc' = [pc EXCEPT ![2] = "done"]
    /\ UNCHANGED <<network_file, ambulance_file, calls_file, graph, path_matrix, stage, query,
                   dj, call_queue, dispatch_log, available_ambulances, processed, relaxed>>

NextDispatch == Start1 \/ Dispatch1 \/ Finish1 \/ Start2 \/ Dispatch2 \/ Finish2

SpecDispatch == InitDispatch /\ [][NextDispatch]_vars

\* ------------------------------------------------------------------------
\* Properties of the path strategies
\* ------------------------------------------------------------------------
RECURSIVE SumWeights(_, _)
SumWeights(nbrs, i) == IF i > Len(nbrs) THEN 0 ELSE nbrs[i][2] + SumWeights(nbrs, i + 1)

RECURSIVE TotalWeight(_, _)
TotalWeight(al, s) ==
    IF s > Len(al) THEN 0 ELSE SumWeights(al[s].neighbors, 1) + TotalWeight(al, s + 1)

RECURSIVE NumEdges(_, _)
NumEdges(al, s) == IF s > Len(al) THEN 0 ELSE Len(al[s].neighbors) + NumEdges(al, s + 1)

\* No float addition of two path lengths of g rounds: every such sum has
\* at most MantissaBits significant bits.
ExactSums(g) == 2 * TotalWeight(g.adjacency_list, 1) < 2 ^ MantissaBits

\* a + b on the reals.
Plus(a, b) == IF a = Inf \/ b = Inf THEN Inf ELSE a + b

TableBuilt == stage \in {"ready", "running", "returned"}

Triangle(m, V) == \A i \in V, j \in V, k \in V : m[i][j] <= Plus(m[i][k], m[k][j])

C10_LabelsAreFinal ==
    [][stage = "running" =>
          /\ \A v \in DOMAIN dj.distances :
                 /\ dj'.distances[v] <= dj.distances[v]
                 /\ dj.expanded[v] >= 1 => dj'.distances[v] = dj.distances[v]
                 /\ dj'.expanded[v] <= 1
          /\ dj.priority_queue # <<>> /\ dj.expanded[Head(dj.priority_queue).node] >= 1
                 => /\ Head(dj.priority_queue).cost > dj.distances[Head(dj.priority_queue).node]
                    /\ dj'.distances = dj.distances
                    /\ dj'.priority_queue = Tail(dj.priority_queue)
          /\ dj'.iterations <= NumEdges(graph.adjacency_list, 1) + 1
      ]_vars

\* C10 witness: the entry at the head of the frontier belongs to a vertex
\* that has already passed the staleness check.
C10_Witness ==
    /\ stage = "running"
    /\ dj.priority_queue # <<>>
    /\ dj.expanded[Head(dj.priority_queue).node] = 1

\* C9: with one edge weight decreased, no shortest distance of either
\* strategy is greater than on the original graph.
C9_Monotone ==
    /\ stage \in {"tables", "compared"} =>
           \A u \in graph.vertices, v \in graph.vertices :
               relaxed.path_matrix[u][v] <= path_matrix[u][v]
    /\ stage = "compared" => relaxed.after <= relaxed.before

\* C9 witness: a distance that the decreased weight made strictly smaller,
\* under both strategies.
C9_Witness ==
    /\ stage = "compared"
    /\ relaxed.after < relaxed.before
    /\ relaxed.path_matrix[query.start_node][query.end_node]
           < path_matrix[query.start_node][query.end_node]

\* ------------------------------------------------------------------------
\* Properties of the dispatch loop
\* ------------------------------------------------------------------------
\* The fleet as the ambulance file gives it: vehicle id and location, in
\* file order.
FleetOfFile ==
    [i \in 1..Len(ambulance_file) |->
        [key |-> ambulance_file[i].AmbulanceNumber,
         value |-> ambulance_file[i].StagingLocation]]

\* The priority of a call type: 1 for "Cardiac", the default otherwise.
ExpectedPriority(call_type) == IF call_type = "Cardiac" THEN 1 ELSE DefaultPriority

\* (priority, id) of a comes before (priority, id) of b.
KeyBefore(pa, ida, pb, idb) == pa < pb \/ (pa = pb /\ ida < idb)

\* The travel time prototype p computes from a to b.
TravelTime(p, a, b) ==
    IF p = 1 THEN dijkstra_shortest_path(graph, a, b) ELSE path_matrix[a][b]

\* The edges of g as pairs (source, destination).
EdgePairs(g) ==
    UNION { { <<g.adjacency_list[s].source, g.adjacency_list[s].neighbors[e][1]>> :
                e \in 1..Len(g.adjacency_list[s].neighbors) } :
            s \in 1..Len(g.adjacency_list) }

\* The locations reachable from the set S along the edges of g.
RECURSIVE ReachFrom(_, _)
ReachFrom(g, S) ==
    LET T == S \cup { q[2] : q \in { e \in EdgePairs(g) : e[1] \in S } }
    IN  IF T = S THEN S ELSE ReachFrom(g, T)

\* No vehicle of the fleet is connected to the location of the queue entry e.
Unservable(e) ==
    \A i \in 1..Len(FleetOfFile) :
        e.row.Location \notin ReachFrom(graph, {FleetOfFile[i].value})

\* Some vehicle of the fleet has a finite travel time to the location of e.
Servable(p, e) ==
    \E i \in 1..Len(FleetOfFile) : TravelTime(p, FleetOfFile[i].value, e.row.Location) < Inf

FirstFastest(p, r, i) ==
    LET T(j) == TravelTime(p, FleetOfFile[j].value, r.CallLocation)
    IN  /\ FleetOfFile[i].key = r.SelectedAmbulance
        /\ T(i) < Inf
        /\ \A j \in 1..Len(FleetOfFile) : T(i) <= T(j)
        /\ \A j \in 1..(i - 1) : T(i) < T(j)

\* C3 as stated: every record names the first vehicle of the fleet with the
\* minimal travel time, and its recorded time is that minimum.
C3_RecordIsMinimum ==
    \A p \in Protos : \A k \in 1..Len(dispatch_log[p]) :
        LET r == dispatch_log[p][k]
        IN  \E i \in 1..Len(FleetOfFile) :
                /\ FirstFastest(p, r, i)
                /\ r.TimeToCallLocation * 8
                       = TravelTime(p, FleetOfFile[i].value, r.CallLocation) * 100

\* C3 amended: every record names the first vehicle of the fleet with the
\* minimal travel time, and its recorded time is that minimum rounded to
\* two decimals.
C3_RecordIsRoundedMinimum ==
    \A p \in Protos : \A k \in 1..Len(dispatch_log[p]) :
        LET r == dispatch_log[p][k]
        IN  \E i \in 1..Len(FleetOfFile) :
                /\ FirstFastest(p, r, i)
                /\ r.TimeToCallLocation
                       = Round2(TravelTime(p, FleetOfFile[i].value, r.CallLocation))

\* C3 witness: a record of a call for which two vehicles share the minimal
\* time, the first of them being recorded, with a recorded time that the
\* rounding made different from the minimum.
C3_Witness ==
    /\ pc[2] = "done"
    /\ \E k \in 1..Len(dispatch_log[2]) :
       \E i, j \in 1..Len(FleetOfFile) :
           /\ i < j
           /\ FirstFastest(2, dispatch_log[2][k], i)
           /\ TravelTime(2, FleetOfFile[j].value, dispatch_log[2][k].CallLocation)
                  = TravelTime(2, FleetOfFile[i].value, dispatch_log[2][k].CallLocation)
           /\ dispatch_log[2][k].TimeToCallLocation * 8
                  # TravelTime(2, FleetOfFile[i].value, dispatch_log[2][k].CallLocation) * 100

\* C4 as stated: in both prototypes a dequeued call that no vehicle can
\* reach gets no record and does not stop the run.
C4_UnservableCallSkipped ==
    \A p \in Protos : \A k \in 1..Len(processed[p]) :
        Unservable(processed[p][k]) =>
            /\ \A n \in 1..Len(dispatch_log[p]) :
                   dispatch_log[p][n].CallID # processed[p][k].call_id
            /\ k = Len(processed[p]) => pc[p] # "error"

\* The k-th record of prototype p is a record of the queue entry e.
RecordOf(r, e) ==
    /\ r.CallID = e.call_id
    /\ r.CallType = e.row.CallType
    /\ r.CallLocation = e.row.Location

\* C5 as stated: the log holds exactly one record, with the call's id, type
\* and location, for every dequeued call that some vehicle reaches in
\* finite time, and no other record.
C5_OneRecordPerServableCall ==
    \A p \in Protos :
        pc[p] \in {"loop", "done"} =>
            LET served == SelectSeq(processed[p], LAMBDA e : Servable(p, e))
            IN  /\ Len(dispatch_log[p]) = Len(served)
                /\ \A n \in 1..Len(served) : RecordOf(dispatch_log[p][n], served[n])

\* C6: the available fleet is the initial snapshot after any number of
\* dispatches, and two calls at one location get the same vehicle and time.
C6_FleetUnchanged ==
    \A p \in Protos :
        pc[p] # "start" =>
            /\ available_ambulances[p] = FleetOfFile
            /\ \A a, b \in 1..Len(dispatch_log[p]) :
                   dispatch_log[p][a].CallLocation = dispatch_log[p][b].CallLocation
                   => /\ dispatch_log[p][a].SelectedAmbulance = dispatch_log[p][b].SelectedAmbulance
                      /\ dispatch_log[p][a].TimeToCallLocation = dispatch_log[p][b].TimeToCallLocation

\* C6 witness: two records naming the same vehicle, another vehicle being
\* in the fleet.
C6_Witness ==
    /\ pc[1] = "done"
    /\ Len(FleetOfFile) >= 2
    /\ Len(dispatch_log[1]) >= 2
    /\ dispatch_log[1][1].SelectedAmbulance = dispatch_log[1][2].SelectedAmbulance

\* C8 as stated: both prototypes run to completion and write the same
\* sequence of records.
C8_PrototypesAgree ==
    /\ pc[2] # "error"
    /\ pc[1] = "done" /\ pc[2] = "done" => dispatch_log[1] = dispatch_log[2]

====
